---- MODULE Spec2Model ----
(***************************************************************************)
(* Model of the live transcription orchestrator, class RealTranscriber of  *)
(* src/src/lib/real-transcriber.ts (lines 1-301): the recording session,   *)
(* the continuous browser recognition path, the chunked server path with   *)
(* its windowing timer and retry counter, and the transcript accumulation. *)
(*                                                                         *)
(* JavaScript runs handlers to completion, so every action below is one    *)
(* handler segment between two suspension points (await / timer / event).  *)
(* Strings are sequences of atoms; a fixed literal of the code (a marker   *)
(* or the error message) is one atom.                                      *)
(***************************************************************************)
EXTENDS Naturals, Integers, Sequences, FiniteSets, Bags, TLC

\* ------------------------------------------------------------------ bounds
MaxStarts == 2        \* start() calls in one behaviour
MaxFragments == 2     \* audio fragments kept in audioChunks per session
MaxInflight == 2      \* fetch requests awaiting their response
MaxLen == 3           \* atoms in accumulatedTranscript
MaxFails == 4         \* failed submissions counted without a success between
MaxStops == 2         \* stop() calls counted once a session has settled
MaxSaves == 2        \* saveMeeting calls counted per recording
MaxRequests == 2      \* requests to POST /api/transcribe

\* ------------------------------------------------------- program constants
maxRetries == 3
MinChunkBytes == 1000

\* ------------------------------------------------------------------ text
SP == " "
UnavailableMarker == "[Transcription temporarily unavailable]"
AudioCaptureMarker == "[Audio capture failed]"
DeniedMarker == "[Microphone access denied]"
NetworkMarker == "[Network error]"
UnknownMarker == "[Speech recognition error]"
FinalErrorText == <<"Error: Failed to transcribe audio. Please try again.">>

IsPrefix(s, t) == Len(s) <= Len(t) /\ SubSeq(t, 1, Len(s)) = s

RECURSIVE TrimLeft(_)
TrimLeft(s) == IF s # <<>> /\ Head(s) = SP THEN TrimLeft(Tail(s)) ELSE s

RECURSIVE TrimRight(_)
TrimRight(s) ==
  IF s # <<>> /\ s[Len(s)] = SP THEN TrimRight(SubSeq(s, 1, Len(s) - 1)) ELSE s

\* String.prototype.trim
Trim(s) == TrimRight(TrimLeft(s))

\* an assignment in place of the += : the new text overwrites the old
AppendText_replace(acc, text) == text

\* acc += (acc ? ' ' : '') + text
AppendText(acc, text) == acc \o (IF acc # <<>> THEN <<SP>> ELSE <<>>) \o text

\* acc + ' [marker]'
WithMarker(acc, marker) == acc \o <<SP, marker>>

\* ------------------------------------------------------------- environment
\* sizes of the blobs a MediaRecorder hands to ondataavailable
FragSizes == {0, 600, 1200}

\* texts the transcription endpoint returns in data.transcript
ServerTexts == {<<>>, <<SP>>, <<SP, "a", SP>>}

\* transcripts of one recognition result
RecTexts == {<<>>, <<"a">>, <<"b">>}

\* the results of one recognition event, from event.resultIndex on
RecResult == [isFinal : BOOLEAN, transcript : RecTexts]
RecEvents == {<<r>> : r \in RecResult} \cup {<<r, q>> : r \in RecResult, q \in RecResult}

ErrorKinds == {"no-speech", "audio-capture", "not-allowed", "network", "aborted"}

\* what a fetch to /api/transcribe settles with
Response(kind, success, hasData, hasText, text) ==
  [kind |-> kind, success |-> success, hasData |-> hasData, hasText |-> hasText, text |-> text]
Responses ==
  {Response(k, FALSE, FALSE, FALSE, <<>>) : k \in {"neterr", "timeout", "status"}}
  \cup {Response("json", FALSE, FALSE, FALSE, <<>>)}
  \cup {Response("json", TRUE, FALSE, FALSE, <<>>)}
  \cup {Response("json", TRUE, TRUE, FALSE, <<>>)}
  \cup {Response("json", TRUE, TRUE, TRUE, t) : t \in ServerTexts}

\* ------------------------------------------------------------------ state
VARIABLES
  hasRecognition,         \* this.recognition !== null (set by the constructor)
  mediaRecorderSupported, \* window.MediaRecorder is defined
  isRecording,
  useBrowserRecognition,
  accumulatedTranscript,
  audioChunks,            \* sizes of the blobs pushed by ondataavailable
  lastProcessedChunk,
  retryCount,
  stream,                 \* 0 = null, else the id of the MediaStream held
  mediaRecorder,          \* 0 = null, else the id of the MediaRecorder held
  processingInterval,     \* 0 = null, else the id of the interval timer held
  onTranscriptUpdate,     \* 0 = the initial no-op, else the session whose callback is registered
  startPending,           \* start() calls awaiting getUserMedia
  liveStreams,            \* MediaStreams whose tracks are running
  recorders,              \* state of every MediaRecorder created
  timers,                 \* interval timers still armed
  recState,               \* state of the SpeechRecognition object
  recSession,             \* session that last started recognition
  restartTimers,          \* pending 100ms restart timeouts, per arming session
  inflight,               \* bag of fetch requests awaiting their response
  sessionCount,           \* sessions started so far (a granted start() makes one)
  startCalls,             \* start() calls so far
  stoppedSessions,        \* sessions for which stop() has returned
  called,                 \* what the handler that ran last passed to onTranscriptUpdate
  covered,                \* audioChunks positions put into a windowed chunk this session
  transcribed,            \* per audioChunks position: windowed texts appended for it
  consecFails,            \* failed submissions since the session began or text was appended
  joinedFinals,           \* non-empty final fragments of this session joined by spaces
  stopCalls,              \* stop() calls since the last granted start(); see Stop
  releases,               \* per MediaStream: times its tracks were stopped
  finalFlushes,           \* per MediaRecorder: final submissions made by its onstop
  lastMarker,             \* marker of the last recognition error of this session, or ""
  transcript,             \* the transcript field of the meeting store
  summarized,             \* generateSummary has handed the transcript to the summarizer
  wired,                  \* the callback given to start() is the store's setTranscript
  summary,                \* the summary field of the store: "null", "parsed", or "error" when generateSummary failed
  storeRecording,         \* the isRecording field of the store
  saved,                  \* saveMeeting calls of the page's save effect since startRecording()
  refStale,               \* transcriberRef.current is an instance created after the start() call
  effectPending,          \* the mediaStream state changed and the page effect has not run again yet
  uploads,                \* requests whose uploaded temporary file is on the server's disk
  served,                 \* per request to POST /api/transcribe: how far it is, and its answer
  sender,                 \* per request: the submission of the transcriber that posted it, if any
  stopWhilePending        \* stop() was called since the start() awaiting the device was issued

fields == <<isRecording, useBrowserRecognition, accumulatedTranscript, audioChunks,
            lastProcessedChunk, retryCount, stream, mediaRecorder, processingInterval,
            onTranscriptUpdate>>
host == <<hasRecognition, mediaRecorderSupported, startPending, liveStreams, recorders,
          timers, recState, recSession, restartTimers, inflight>>
ghost == <<sessionCount, startCalls, stoppedSessions, called, covered, transcribed,
           consecFails, joinedFinals>>
audit == <<stopCalls, releases, finalFlushes, lastMarker>>
\* the page that uses the transcriber, and its meeting store
control == <<summarized, wired, summary, storeRecording, refStale, effectPending>>
page == <<transcript, saved, control>>
server == <<uploads, served, sender>>
vars == <<fields, host, ghost, audit, page, server, stopWhilePending>>

Sessions == 1..MaxStarts

\* this.onTranscriptUpdate(value), made by a handler of session `origin`
NoCall == <<>>
Call(value, origin) == <<[value |-> value, origin |-> origin]>>

\* ----------------------------------------------------------------- server
Requests == 1..MaxRequests

\* what the call of the model came to: readFileSync or fetch threw
\* (`failure` is the message of the error, "fetch failed" for a request that
\* could not be sent, "terminated" for a connection closed while the body
\* was read), or a response with a status and a body
WhisperReply(failure, status, hasResponse, text) ==
  [failure |-> failure, status |-> status, hasResponse |-> hasResponse, text |-> text]
NetworkFailures == {"fetch failed", "terminated"}
WhisperReplies ==
  {WhisperReply(f, 0, FALSE, <<>>) :
     f \in {"ENOENT: no such file or directory"} \cup NetworkFailures}
    \cup {WhisperReply("none", st, FALSE, <<>>) : st \in {404, 500}}
    \cup {WhisperReply("none", 200, FALSE, <<>>)}
    \cup {WhisperReply("none", 200, TRUE, t) : t \in ServerTexts}

ServiceUnavailable == "Transcription service is not available."
WhisperFallback ==
  <<ServiceUnavailable, SP, "Please ensure Whisper is running on localhost:11434">>
OllamaFallback ==
  <<ServiceUnavailable, SP,
    "Please ensure Ollama is running with a Whisper model installed. Run: ollama pull whisper">>

Returned(text) == [threw |-> FALSE, value |-> text, message |-> ""]
Thrown(message) == [threw |-> TRUE, value |-> <<>>, message |-> message]

\* response.ok
ResponseOk(status) == status >= 200 /\ status < 300
ApiError(status) ==
  IF status = 404 THEN "Whisper API error: 404 Not Found"
  ELSE "Whisper API error: 500 Internal Server Error"
\* error.message.includes('fetch'), over the messages above
IncludesFetch(message) == message = "fetch failed"

\* transcribeAudio of services/whisper.ts.  The repository holds two versions
\* of it; the later one (`later`) answers a 404 with fallbackTranscription.
transcribeAudio(reply, later) ==
  LET fallback == IF later THEN OllamaFallback ELSE WhisperFallback
      attempt ==
        IF reply.failure # "none" THEN Thrown(reply.failure)
        ELSE IF ~ResponseOk(reply.status)
          THEN IF later /\ reply.status = 404 THEN Returned(fallback)
               ELSE Thrown(ApiError(reply.status))
        ELSE IF reply.hasResponse /\ reply.text # <<>>
          THEN Returned(Trim(reply.text))
        ELSE Thrown("No transcription result received from Whisper API")
  IN IF attempt.threw /\ IncludesFetch(attempt.message)
       THEN Returned(fallback)
       ELSE attempt

NoReply == WhisperReply("none", 0, FALSE, <<>>)
NotReceived ==
  [state |-> "idle", status |-> 0, success |-> FALSE, transcript |-> <<>>,
   reply |-> NoReply, outcome |-> Returned(<<>>)]
Transcribing ==
  [state |-> "transcribing", status |-> 0, success |-> FALSE, transcript |-> <<>>,
   reply |-> NoReply, outcome |-> Returned(<<>>)]
Answered(status, success, text, reply, outcome) ==
  [state |-> "answered", status |-> status, success |-> success, transcript |-> text,
   reply |-> reply, outcome |-> outcome]

\* a request that was not posted by the transcriber
NoSender == [kind |-> "none", from |-> 0, to |-> 0, origin |-> 0]

\* what the fetch of the transcriber settles with when the endpoint has
\* answered: a status that is not ok, or the JSON body
ResponseOf(answer) ==
  IF answer.status = 200
    THEN Response("json", answer.success, TRUE, TRUE, answer.transcript)
    ELSE Response("status", FALSE, FALSE, FALSE, <<>>)
AnswerResponses ==
  {ResponseOf(served[id]) : id \in {j \in Requests : served[j].state = "answered"}}

Init ==
  /\ hasRecognition \in BOOLEAN
  /\ mediaRecorderSupported \in BOOLEAN
  /\ isRecording = FALSE
  /\ useBrowserRecognition = FALSE
  /\ accumulatedTranscript = <<>>
  /\ audioChunks = <<>>
  /\ lastProcessedChunk = 0
  /\ retryCount = 0
  /\ stream = 0
  /\ mediaRecorder = 0
  /\ processingInterval = 0
  /\ onTranscriptUpdate = 0
  /\ startPending = 0
  /\ liveStreams = {}
  /\ recorders = [r \in Sessions |-> "none"]
  /\ timers = {}
  /\ recState = "inactive"
  /\ recSession = 0
  /\ restartTimers = [s \in Sessions |-> 0]
  /\ inflight = EmptyBag
  /\ sessionCount = 0
  /\ startCalls = 0
  /\ stoppedSessions = {}
  /\ called = NoCall
  /\ covered = {}
  /\ transcribed = <<>>
  /\ consecFails = 0
  /\ joinedFinals = <<>>
  /\ stopCalls = 0
  /\ releases = [r \in Sessions |-> 0]
  /\ finalFlushes = [r \in Sessions |-> 0]
  /\ lastMarker = ""
  /\ transcript = <<>>
  /\ summarized = FALSE
  /\ wired = FALSE
  /\ summary = "null"
  /\ storeRecording = FALSE
  /\ saved = 0
  /\ refStale = FALSE
  /\ effectPending = FALSE
  /\ uploads = {}
  /\ served = [id \in Requests |-> NotReceived]
  /\ sender = [id \in Requests |-> NoSender]
  /\ stopWhilePending = FALSE

\* ------------------------------------------------------------------- page
\* setTranscript, the callback the page passes to start(): every invocation
\* of the callback stores the delivered value
SetTranscript ==
  transcript' = IF wired /\ called' # NoCall THEN called'[1].value ELSE transcript

\* the save effect of the page: it runs after a render in which isSummarizing,
\* summary or transcript changed, and calls saveMeeting if the summary is
\* there, no summary is being made and the transcript is not empty
SaveMeetingEffect ==
  saved' = IF /\ summary' = "parsed"
              /\ transcript' # <<>>
              /\ (summary # "parsed" \/ transcript' # transcript)
              /\ saved < MaxSaves
             THEN saved + 1
             ELSE saved

\* startRecording() of the store
StartRecording ==
  /\ storeRecording' = TRUE
  /\ transcript' = <<>>
  /\ summarized' = FALSE
  /\ summary' = "null"

\* stopRecording() of the store
StopRecording == storeRecording' = FALSE

\* generateSummary() of the store up to its await: it reads the stored
\* transcript and gives up if it is blank
GenerateSummary ==
  summarized' = (Trim(transcript) # <<>>)

\* ------------------------------------------------------------------ start
\* start(): isSupported() is false, the call throws before anything else
StartUnsupported ==
  /\ startCalls < MaxStarts
  /\ ~mediaRecorderSupported
  /\ startCalls' = startCalls + 1
  /\ called' = NoCall
  /\ UNCHANGED <<fields, host, sessionCount, stoppedSessions, covered, transcribed,
                 consecFails, joinedFinals>>
  /\ UNCHANGED audit
  /\ SetTranscript
  /\ UNCHANGED control
  /\ SaveMeetingEffect
  /\ UNCHANGED server
  /\ UNCHANGED stopWhilePending

\* a start() that asks for the device without testing isSupported()
StartRequest_unchecked ==
  /\ startCalls < MaxStarts
  /\ startPending = 0
  /\ startPending' = 1
  /\ startCalls' = startCalls + 1
  /\ called' = NoCall
  /\ UNCHANGED <<fields, hasRecognition, mediaRecorderSupported, liveStreams, recorders,
                 timers, recState, recSession, restartTimers, inflight, sessionCount,
                 stoppedSessions, covered, transcribed, consecFails, joinedFinals>>
  /\ UNCHANGED audit
  /\ UNCHANGED page
  /\ UNCHANGED server
  /\ UNCHANGED stopWhilePending

\* start() up to `await navigator.mediaDevices.getUserMedia`
StartRequest ==
  /\ startCalls < MaxStarts
  /\ mediaRecorderSupported
  /\ startPending = 0
  /\ startPending' = 1
  /\ startCalls' = startCalls + 1
  /\ called' = NoCall
  /\ UNCHANGED <<fields, hasRecognition, mediaRecorderSupported, liveStreams, recorders,
                 timers, recState, recSession, restartTimers, inflight, sessionCount,
                 stoppedSessions, covered, transcribed, consecFails, joinedFinals>>
  /\ UNCHANGED audit
  /\ UNCHANGED page
  /\ UNCHANGED server
  /\ UNCHANGED stopWhilePending

\* handleRecordingToggle of the page, once its own getUserMedia has been
\* granted: setMediaStream(stream), which makes the page effect run again
\* after the next render, startRecording() and then start(setTranscript) on
\* the instance transcriberRef holds, which runs up to its await
HandleRecordingToggle ==
  /\ startCalls < MaxStarts
  /\ mediaRecorderSupported
  /\ startPending = 0
  /\ startPending' = 1
  /\ startCalls' = startCalls + 1
  /\ called' = NoCall
  /\ UNCHANGED <<fields, hasRecognition, mediaRecorderSupported, liveStreams, recorders,
                 timers, recState, recSession, restartTimers, inflight, sessionCount,
                 stoppedSessions, covered, transcribed, consecFails, joinedFinals>>
  /\ UNCHANGED audit
  /\ StartRecording
  /\ wired' = TRUE
  /\ refStale' = FALSE
  /\ effectPending' = TRUE
  /\ saved' = 0
  /\ UNCHANGED server
  /\ UNCHANGED stopWhilePending

\* a catch block that asks for the device again instead of rethrowing
StartDenied_retries ==
  /\ startPending > 0
  /\ startCalls < MaxStarts
  /\ startCalls' = startCalls + 1
  /\ startPending' = startPending
  /\ called' = NoCall
  /\ UNCHANGED <<fields, hasRecognition, mediaRecorderSupported, liveStreams, recorders,
                 timers, recState, recSession, restartTimers, inflight, sessionCount,
                 stoppedSessions, covered, transcribed, consecFails, joinedFinals>>
  /\ UNCHANGED audit
  /\ SetTranscript
  /\ UNCHANGED control
  /\ SaveMeetingEffect
  /\ UNCHANGED server
  /\ stopWhilePending' = FALSE

\* getUserMedia rejects: the catch block logs and rethrows
StartDenied ==
  /\ startPending > 0
  /\ startPending' = startPending - 1
  /\ called' = NoCall
  /\ UNCHANGED <<fields, hasRecognition, mediaRecorderSupported, liveStreams, recorders,
                 timers, recState, recSession, restartTimers, inflight, sessionCount,
                 startCalls, stoppedSessions, covered, transcribed, consecFails,
                 joinedFinals>>
  /\ UNCHANGED audit
  /\ SetTranscript
  /\ UNCHANGED control
  /\ SaveMeetingEffect
  /\ UNCHANGED server
  /\ stopWhilePending' = FALSE

\* a start() that never takes the recognition branch
UsesRecognition_never(rec) == FALSE

\* if (this.recognition): line 106
UsesRecognition(rec) == rec

\* getUserMedia resolves and this.recognition exists: lines 98-111
StartGrantedContinuous ==
  /\ startPending > 0
  /\ UsesRecognition(hasRecognition)
  /\ LET n == sessionCount + 1 IN
     /\ startPending' = startPending - 1
     /\ sessionCount' = n
     /\ stream' = n
     /\ liveStreams' = liveStreams \cup {n}
     /\ onTranscriptUpdate' = n
     /\ accumulatedTranscript' = <<>>
     /\ isRecording' = TRUE
     /\ useBrowserRecognition' = TRUE
     \* recognition.start() throws InvalidStateError unless the recognizer is inactive
     /\ IF recState = "inactive"
          THEN /\ recState' = "active"
               /\ recSession' = n
               /\ called' = NoCall
          ELSE /\ UNCHANGED <<recState, recSession>>
               /\ called' = NoCall
  /\ covered' = {}
  /\ transcribed' = [i \in 1..Len(audioChunks) |-> 0]
  /\ consecFails' = 0
  /\ joinedFinals' = <<>>
  /\ UNCHANGED <<audioChunks, lastProcessedChunk, retryCount, mediaRecorder,
                 processingInterval, hasRecognition, mediaRecorderSupported, recorders,
                 timers, restartTimers, inflight, startCalls, stoppedSessions>>
  /\ stopCalls' = 0
  /\ lastMarker' = ""
  /\ UNCHANGED <<releases, finalFlushes>>
  /\ SetTranscript
  /\ UNCHANGED control
  /\ SaveMeetingEffect
  /\ UNCHANGED server
  /\ stopWhilePending' = FALSE

\* getUserMedia resolves and this.recognition is null: lines 98-104, 113-144
StartGrantedChunked ==
  /\ startPending > 0
  /\ ~UsesRecognition(hasRecognition)
  /\ LET n == sessionCount + 1 IN
     /\ startPending' = startPending - 1
     /\ sessionCount' = n
     /\ stream' = n
     /\ liveStreams' = liveStreams \cup {n}
     /\ onTranscriptUpdate' = n
     /\ accumulatedTranscript' = <<>>
     /\ isRecording' = TRUE
     /\ useBrowserRecognition' = FALSE
     /\ mediaRecorder' = n
     /\ recorders' = [recorders EXCEPT ![n] = "recording"]
     /\ audioChunks' = <<>>
     /\ processingInterval' = n
     /\ timers' = timers \cup {n}
     /\ called' = NoCall
  /\ covered' = {}
  /\ transcribed' = <<>>
  /\ consecFails' = 0
  /\ joinedFinals' = <<>>
  /\ UNCHANGED <<lastProcessedChunk, retryCount, hasRecognition, mediaRecorderSupported,
                 recState, recSession, restartTimers, inflight, startCalls,
                 stoppedSessions>>
  /\ stopCalls' = 0
  /\ lastMarker' = ""
  /\ UNCHANGED <<releases, finalFlushes>>
  /\ SetTranscript
  /\ UNCHANGED control
  /\ SaveMeetingEffect
  /\ UNCHANGED server
  /\ stopWhilePending' = FALSE

\* ------------------------------------------------------------------- stop
\* a stop() that forgets to stop the tracks
ReleaseStream_forgotten(live, s) == live

\* this.stream.getTracks().forEach(track => track.stop()): lines 172-176
ReleaseStream(live, s) == live \ {s}

\* a stop() that leaves the interval armed
ClearInterval_forgotten(armed, id) == armed

\* clearInterval(this.processingInterval): lines 166-170
ClearInterval(armed, id) == armed \ {id}

\* nothing of a session is left running: no request in flight, no recorder
\* or recognizer winding down, no timeout pending
Settled ==
  /\ startPending = 0
  /\ inflight = EmptyBag
  /\ \A r \in Sessions : recorders[r] \in {"none", "inactive"}
  /\ recState = "inactive"
  /\ \A s \in Sessions : restartTimers[s] = 0

\* stop(): lines 152-178.  A call that finds the transcriber not recording
\* does nothing; it is counted in stopCalls only when it comes after the
\* session has settled.
StopTranscriber ==
  /\ stopCalls' = IF isRecording THEN 1
                  ELSE IF Settled /\ stopCalls < MaxStops THEN stopCalls + 1
                  ELSE stopCalls
  /\ IF isRecording
       THEN /\ isRecording' = FALSE
            /\ IF useBrowserRecognition /\ hasRecognition
                 THEN \* recognition.stop()
                      /\ recState' = IF recState = "active" THEN "stopping" ELSE recState
                      /\ UNCHANGED recorders
                 ELSE \* mediaRecorder.stop()
                      /\ recorders' = IF mediaRecorder # 0 /\ recorders[mediaRecorder] = "recording"
                                        THEN [recorders EXCEPT ![mediaRecorder] = "stopping"]
                                        ELSE recorders
                      /\ UNCHANGED recState
            /\ timers' = ClearInterval(timers, processingInterval)
            /\ processingInterval' = 0
            /\ liveStreams' = ReleaseStream(liveStreams, stream)
            /\ releases' = IF stream \in liveStreams /\ stream \notin liveStreams'
                             THEN [releases EXCEPT ![stream] = @ + 1]
                             ELSE releases
            /\ stream' = 0
            /\ stoppedSessions' = stoppedSessions \cup {sessionCount}
            /\ called' = NoCall
       ELSE UNCHANGED <<isRecording, recState, recorders, timers, processingInterval,
                        liveStreams, stream, stoppedSessions, called, releases>>
  /\ UNCHANGED <<useBrowserRecognition, accumulatedTranscript, audioChunks,
                 lastProcessedChunk, retryCount, mediaRecorder, onTranscriptUpdate,
                 hasRecognition, mediaRecorderSupported, startPending, recSession,
                 restartTimers, inflight, sessionCount, startCalls, covered, transcribed,
                 consecFails, joinedFinals>>
  /\ UNCHANGED <<finalFlushes, lastMarker>>
  /\ UNCHANGED server
  /\ stopWhilePending' = (startPending > 0)

\* stop() called by a user of the class other than the page
Stop == StopTranscriber /\ UNCHANGED page

\* a step of the page that calls nothing on the instance start() was called on
TranscriberUntouched ==
  /\ called' = NoCall
  /\ UNCHANGED <<fields, host, audit, server, stopWhilePending, sessionCount, startCalls,
                 stoppedSessions, covered, transcribed, consecFails, joinedFinals>>

\* transcriberRef.current?.stop(): it reaches the instance start() was called
\* on only while the ref still holds that instance; an instance created
\* later has never been started and its stop() does nothing
RefStop == IF refStale THEN TranscriberUntouched ELSE StopTranscriber

\* the page effect with dependency [mediaStream], run again after a render
\* in which mediaStream changed: the clean-up calls stop() on the instance
\* the ref holds, then the effect body puts a new RealTranscriber in the ref
EffectRerun ==
  /\ effectPending
  /\ RefStop
  /\ refStale' = TRUE
  /\ effectPending' = FALSE
  /\ UNCHANGED <<transcript, summarized, wired, summary, storeRecording>>
  /\ SaveMeetingEffect

\* handleStopRecording, reached through the button while the store says
\* recording: stop() on the instance the ref holds, setMediaStream(null),
\* stopRecording() and generateSummary() up to its await.  The effects of the
\* earlier render have run before the click is handled.
HandleStopRecording ==
  /\ storeRecording
  /\ ~effectPending
  /\ RefStop
  /\ effectPending' = TRUE
  /\ StopRecording
  /\ GenerateSummary
  /\ UNCHANGED <<transcript, wired, summary, refStale>>
  /\ SaveMeetingEffect

\* generateSummary() after its await: the summary is stored, or the error is
SummaryArrives(ok) ==
  /\ summarized
  /\ summary = "null"
  /\ summary' = IF ok THEN "parsed" ELSE "error"
  /\ TranscriberUntouched
  /\ UNCHANGED <<transcript, summarized, wired, storeRecording, refStale, effectPending>>
  /\ SaveMeetingEffect

\* ---------------------------------------------------------- chunked path
RECURSIVE SumSizes(_)
SumSizes(q) == IF q = <<>> THEN 0 ELSE Head(q) + SumSizes(Tail(q))

\* this.audioChunks.slice(from): positions from+1 .. Len
SliceFrom(q, from) == SubSeq(q, from + 1, Len(q))

Submission(kind, from, to, origin) ==
  [kind |-> kind, from |-> from, to |-> to, origin |-> origin]
Submissions ==
  [kind : {"chunk", "final"}, from : 0..MaxFragments, to : 0..MaxFragments, origin : Sessions]

\* mediaRecorder.ondataavailable: lines 120-125.  A recorder that was stopped
\* fires one last dataavailable before its stop event.
FragmentArrives(r, size) ==
  /\ recorders[r] \in {"recording", "stopping"}
  /\ size > 0 => Len(audioChunks) < MaxFragments
  /\ recorders' = IF recorders[r] = "stopping" THEN [recorders EXCEPT ![r] = "flushed"]
                                               ELSE recorders
  /\ IF size > 0
       THEN /\ audioChunks' = Append(audioChunks, size)
            /\ transcribed' = Append(transcribed, 0)
       ELSE UNCHANGED <<audioChunks, transcribed>>
  /\ called' = NoCall
  /\ UNCHANGED <<isRecording, useBrowserRecognition, accumulatedTranscript,
                 lastProcessedChunk, retryCount, stream, mediaRecorder, processingInterval,
                 onTranscriptUpdate, hasRecognition, mediaRecorderSupported, startPending,
                 liveStreams, timers, recState, recSession, restartTimers, inflight,
                 sessionCount, startCalls, stoppedSessions, covered, consecFails,
                 joinedFinals>>
  /\ UNCHANGED audit
  /\ SetTranscript
  /\ UNCHANGED control
  /\ SaveMeetingEffect
  /\ UNCHANGED server
  /\ UNCHANGED stopWhilePending

\* the setInterval callback (lines 139-144) and processAudioChunk up to its
\* await fetch (lines 180-208)
Tick(t) ==
  /\ t \in timers
  /\ Len(audioChunks) > 0
  /\ Len(audioChunks) > lastProcessedChunk
  /\ LET newChunks == SliceFrom(audioChunks, lastProcessedChunk)
         window == (lastProcessedChunk + 1)..Len(audioChunks)
     IN IF SumSizes(newChunks) < MinChunkBytes
          THEN /\ lastProcessedChunk' = Len(audioChunks)
               /\ called' = NoCall
               /\ covered' = covered \cup window
               /\ UNCHANGED inflight
          ELSE /\ BagCardinality(inflight) < MaxInflight
               /\ inflight' = inflight (+) SetToBag(
                    {Submission("chunk", lastProcessedChunk, Len(audioChunks), sessionCount)})
               /\ called' = NoCall
               /\ covered' = covered \cup window
               /\ UNCHANGED lastProcessedChunk
  /\ UNCHANGED <<isRecording, useBrowserRecognition, accumulatedTranscript, audioChunks,
                 retryCount, stream, mediaRecorder, processingInterval, onTranscriptUpdate,
                 hasRecognition, mediaRecorderSupported, startPending, liveStreams,
                 recorders, timers, recState, recSession, restartTimers, sessionCount,
                 startCalls, stoppedSessions, transcribed, consecFails, joinedFinals>>
  /\ UNCHANGED audit
  /\ SetTranscript
  /\ UNCHANGED control
  /\ SaveMeetingEffect
  /\ UNCHANGED server
  /\ UNCHANGED stopWhilePending

\* which branch of processAudioChunk a settled fetch takes (lines 204-240):
\*   "catch"  fetch rejected, !response.ok, or result.data is undefined
\*   "append" result.success && result.data.transcript, trimmed text non-empty
\*   "blank"  result.success && result.data.transcript, trimmed text empty
\*   "else"   the condition is falsy (line 226)
ChunkBranch_blankFails(resp) ==
  IF resp.kind # "json" THEN "catch"
  ELSE IF ~resp.success THEN "else"
  ELSE IF ~resp.hasData THEN "catch"
  ELSE IF ~resp.hasText \/ resp.text = <<>> THEN "catch"
  ELSE IF Trim(resp.text) # <<>> THEN "append"
  ELSE "catch"

ChunkBranch(resp) ==
  IF resp.kind # "json" THEN "catch"
  ELSE IF ~resp.success THEN "else"
  ELSE IF ~resp.hasData THEN "catch"
  ELSE IF ~resp.hasText \/ resp.text = <<>> THEN "else"
  ELSE IF Trim(resp.text) # <<>> THEN "append"
  ELSE "blank"

\* a catch block that gives up at the retry ceiling: it also clears the
\* processing interval
ChunkFailure_givesUp(sub) ==
  /\ consecFails < MaxFails
  /\ consecFails' = consecFails + 1
  /\ IF retryCount + 1 >= maxRetries
       THEN /\ retryCount' = 0
            /\ called' = Call(WithMarker(accumulatedTranscript, UnavailableMarker),
                              sub.origin)
            /\ timers' = timers \ {processingInterval}
            /\ processingInterval' = 0
       ELSE /\ retryCount' = retryCount + 1
            /\ called' = NoCall
            /\ UNCHANGED <<timers, processingInterval>>
  /\ UNCHANGED <<accumulatedTranscript, lastProcessedChunk, transcribed>>

\* the catch block of processAudioChunk: lines 231-240
\* a catch block that resets the counter only once it is above the ceiling
ChunkFailure_lateReset(sub) ==
  /\ consecFails < MaxFails
  /\ consecFails' = consecFails + 1
  /\ IF retryCount + 1 > maxRetries
       THEN /\ retryCount' = 0
            /\ called' = Call(WithMarker(accumulatedTranscript, UnavailableMarker),
                              sub.origin)
       ELSE /\ retryCount' = retryCount + 1
            /\ called' = NoCall
  /\ UNCHANGED <<accumulatedTranscript, lastProcessedChunk, transcribed, timers,
                 processingInterval>>

ChunkFailure(sub) ==
  /\ consecFails < MaxFails
  /\ consecFails' = consecFails + 1
  /\ IF retryCount + 1 >= maxRetries
       THEN /\ retryCount' = 0
            /\ called' = Call(WithMarker(accumulatedTranscript, UnavailableMarker),
                              sub.origin)
       ELSE /\ retryCount' = retryCount + 1
            /\ called' = NoCall
  /\ UNCHANGED <<accumulatedTranscript, lastProcessedChunk, transcribed, timers,
                 processingInterval>>

\* processAudioChunk after its await: lines 210-240
ChunkResponse(sub, resp) ==
  /\ BagIn(sub, inflight)
  /\ sub.kind = "chunk"
  /\ resp \in Responses \cup AnswerResponses
  /\ inflight' = inflight (-) SetToBag({sub})
  /\ LET branch == ChunkBranch(resp)
         text == Trim(resp.text)
     IN CASE branch = "append" ->
               /\ Len(AppendText(accumulatedTranscript, text)) <= MaxLen
               /\ accumulatedTranscript' = AppendText(accumulatedTranscript, text)
               /\ retryCount' = 0
               /\ lastProcessedChunk' = Len(audioChunks)
               /\ called' = Call(accumulatedTranscript', sub.origin)
               /\ consecFails' = 0
               /\ transcribed' = IF sub.origin = sessionCount
                                   THEN [k \in 1..Len(transcribed) |->
                                           IF k > sub.from /\ k <= sub.to
                                             THEN transcribed[k] + 1 ELSE transcribed[k]]
                                   ELSE transcribed
               /\ UNCHANGED <<timers, processingInterval>>
          [] branch \in {"blank", "else"} ->
               /\ lastProcessedChunk' = Len(audioChunks)
               /\ called' = NoCall
               /\ UNCHANGED <<accumulatedTranscript, retryCount, consecFails, transcribed,
                              timers, processingInterval>>
          [] branch = "catch" -> ChunkFailure(sub)
  /\ UNCHANGED <<isRecording, useBrowserRecognition, audioChunks, stream, mediaRecorder,
                 onTranscriptUpdate, hasRecognition,
                 mediaRecorderSupported, startPending, liveStreams, recorders,
                 recState, recSession, restartTimers, sessionCount, startCalls,
                 stoppedSessions, covered, joinedFinals>>
  /\ UNCHANGED audit
  /\ SetTranscript
  /\ UNCHANGED control
  /\ SaveMeetingEffect
  /\ UNCHANGED server
  /\ UNCHANGED stopWhilePending

\* mediaRecorder.onstop (lines 127-132) and processAudio up to its await fetch
\* (lines 243-256)
RecorderStopped(r) ==
  /\ recorders[r] = "flushed"
  /\ recorders' = [recorders EXCEPT ![r] = "inactive"]
  /\ IF Len(audioChunks) > 0
       THEN /\ BagCardinality(inflight) < MaxInflight
            /\ inflight' = inflight (+) SetToBag({Submission("final", 0, Len(audioChunks), r)})
            /\ finalFlushes' = [finalFlushes EXCEPT ![r] = @ + 1]
       ELSE UNCHANGED <<inflight, finalFlushes>>
  /\ called' = NoCall
  /\ UNCHANGED <<fields, hasRecognition, mediaRecorderSupported, startPending, liveStreams,
                 timers, recState, recSession, restartTimers, sessionCount, startCalls,
                 stoppedSessions, covered, transcribed, consecFails, joinedFinals,
                 stopCalls, releases, lastMarker>>
  /\ SetTranscript
  /\ UNCHANGED control
  /\ SaveMeetingEffect
  /\ UNCHANGED server
  /\ UNCHANGED stopWhilePending

\* whether processAudio delivers the text (lines 258-267) or lands in its catch
FinalDelivers(resp) ==
  resp.kind = "json" /\ resp.success /\ resp.hasData /\ resp.hasText /\ resp.text # <<>>

\* processAudio after its await: lines 258-274
FinalResponse(sub, resp) ==
  /\ BagIn(sub, inflight)
  /\ sub.kind = "final"
  /\ resp \in Responses
  /\ resp.kind # "timeout"
  /\ inflight' = inflight (-) SetToBag({sub})
  /\ called' = Call(IF FinalDelivers(resp) THEN Trim(resp.text) ELSE FinalErrorText,
                     sub.origin)
  /\ UNCHANGED <<fields, hasRecognition, mediaRecorderSupported, startPending, liveStreams,
                 recorders, timers, recState, recSession, restartTimers, sessionCount,
                 startCalls, stoppedSessions, covered, transcribed, consecFails,
                 joinedFinals>>
  /\ UNCHANGED audit
  /\ SetTranscript
  /\ UNCHANGED control
  /\ SaveMeetingEffect
  /\ UNCHANGED server
  /\ UNCHANGED stopWhilePending

\* ------------------------------------------------------- continuous path
\* the loop of onresult (lines 33-40): transcripts of the results with the
\* given isFinal, concatenated
\* a loop that adds every transcript to both texts
RECURSIVE ConcatResults_mixed(_, _)
ConcatResults_mixed(results, final) ==
  IF results = <<>> THEN <<>>
  ELSE Head(results).transcript \o ConcatResults_mixed(Tail(results), final)

RECURSIVE ConcatResults(_, _)
ConcatResults(results, final) ==
  IF results = <<>> THEN <<>>
  ELSE (IF Head(results).isFinal = final THEN Head(results).transcript ELSE <<>>)
       \o ConcatResults(Tail(results), final)

\* the final fragments of one event joined to the fragments before them by
\* single spaces (empty fragments are no fragments)
RECURSIVE JoinFinals(_, _)
JoinFinals(joined, results) ==
  IF results = <<>> THEN joined
  ELSE LET r == Head(results)
           next == IF r.isFinal /\ r.transcript # <<>>
                     THEN joined \o (IF joined # <<>> THEN <<SP>> ELSE <<>>) \o r.transcript
                     ELSE joined
       IN JoinFinals(next, Tail(results))

\* recognition.onresult: lines 29-50
RecognitionResult(results) ==
  /\ recState \in {"active", "stopping"}
  /\ results \in RecEvents
  /\ LET finalTranscript == ConcatResults(results, TRUE)
         interimTranscript == ConcatResults(results, FALSE)
     IN IF finalTranscript # <<>>
          THEN /\ Len(AppendText(accumulatedTranscript, finalTranscript)) <= MaxLen
               /\ accumulatedTranscript' = AppendText(accumulatedTranscript, finalTranscript)
               /\ called' = Call(accumulatedTranscript', recSession)
          ELSE /\ UNCHANGED accumulatedTranscript
               /\ called' = IF interimTranscript # <<>>
                               THEN Call(accumulatedTranscript \o <<SP>> \o interimTranscript,
                                         recSession)
                               ELSE NoCall
  /\ joinedFinals' = JoinFinals(joinedFinals, results)
  /\ UNCHANGED <<isRecording, useBrowserRecognition, audioChunks, lastProcessedChunk,
                 retryCount, stream, mediaRecorder, processingInterval, onTranscriptUpdate,
                 host, sessionCount, startCalls, stoppedSessions, covered, transcribed,
                 consecFails>>
  /\ UNCHANGED audit
  /\ SetTranscript
  /\ UNCHANGED control
  /\ SaveMeetingEffect
  /\ UNCHANGED server
  /\ UNCHANGED stopWhilePending

\* the marker handleRecognitionError shows for an error kind ("" for none)
ErrorMarker(kind) ==
  CASE kind = "no-speech" -> ""
    [] kind = "audio-capture" -> AudioCaptureMarker
    [] kind = "not-allowed" -> DeniedMarker
    [] kind = "network" -> NetworkMarker
    [] OTHER -> UnknownMarker

\* handleRecognitionError: lines 277-300
ErrorCalls(kind, acc, origin) ==
  CASE kind = "no-speech" -> NoCall
    [] kind = "audio-capture" -> Call(WithMarker(acc, AudioCaptureMarker), origin)
    [] kind = "not-allowed" -> Call(WithMarker(acc, DeniedMarker), origin)
    [] kind = "network" -> Call(WithMarker(acc, NetworkMarker), origin)
    [] OTHER -> Call(WithMarker(acc, UnknownMarker), origin)

\* recognition.onerror: lines 52-55.  The recognizer ends after an error.
RecognitionError(kind) ==
  /\ recState = "active"
  /\ kind \in ErrorKinds
  /\ recState' = "failing"
  /\ called' = ErrorCalls(kind, accumulatedTranscript, recSession)
  /\ UNCHANGED <<fields, hasRecognition, mediaRecorderSupported, startPending, liveStreams,
                 recorders, timers, recSession, restartTimers, inflight, sessionCount,
                 startCalls, stoppedSessions, covered, transcribed, consecFails,
                 joinedFinals>>
  /\ lastMarker' = IF kind = "no-speech" THEN lastMarker ELSE ErrorMarker(kind)
  /\ UNCHANGED <<stopCalls, releases, finalFlushes>>
  /\ SetTranscript
  /\ UNCHANGED control
  /\ SaveMeetingEffect
  /\ UNCHANGED server
  /\ UNCHANGED stopWhilePending

\* recognition.onend: lines 57-71, up to the setTimeout
RecognitionEnd ==
  /\ recState \in {"active", "stopping", "failing"}
  /\ recState' = "inactive"
  /\ restartTimers' = IF isRecording /\ useBrowserRecognition
                        THEN [restartTimers EXCEPT ![sessionCount] = @ + 1]
                        ELSE restartTimers
  /\ called' = NoCall
  /\ UNCHANGED <<fields, hasRecognition, mediaRecorderSupported, startPending, liveStreams,
                 recorders, timers, recSession, inflight, sessionCount, startCalls,
                 stoppedSessions, covered, transcribed, consecFails, joinedFinals>>
  /\ UNCHANGED audit
  /\ SetTranscript
  /\ UNCHANGED control
  /\ SaveMeetingEffect
  /\ UNCHANGED server
  /\ UNCHANGED stopWhilePending

\* the setTimeout callback of onend: lines 61-69
RestartFires(s) ==
  /\ s \in Sessions
  /\ restartTimers[s] > 0
  /\ restartTimers' = [restartTimers EXCEPT ![s] = @ - 1]
  /\ IF isRecording /\ hasRecognition /\ recState = "inactive"
       THEN /\ recState' = "active"
            /\ recSession' = sessionCount
            /\ called' = NoCall
       ELSE /\ UNCHANGED <<recState, recSession>>
            /\ called' = NoCall
  /\ UNCHANGED <<fields, hasRecognition, mediaRecorderSupported, startPending, liveStreams,
                 recorders, timers, inflight, sessionCount, startCalls, stoppedSessions,
                 covered, transcribed, consecFails, joinedFinals>>
  /\ UNCHANGED audit
  /\ SetTranscript
  /\ UNCHANGED control
  /\ SaveMeetingEffect
  /\ UNCHANGED server
  /\ UNCHANGED stopWhilePending

\* ----------------------------------------------------------------- server
\* POST /api/transcribe, server/index.ts lines 217-231: multer has stored the
\* upload, the handler runs up to `await transcribeAudio`
PostTranscribe(id, hasFile, from) ==
  /\ served[id].state = "idle"
  /\ sender' = [sender EXCEPT ![id] = from]
  /\ IF hasFile
       THEN /\ uploads' = uploads \cup {id}
            /\ served' = [served EXCEPT ![id] = Transcribing]
       ELSE /\ UNCHANGED uploads
            /\ served' = [served EXCEPT
                            ![id] = Answered(400, FALSE, <<>>, NoReply, Returned(<<>>))]
  /\ UNCHANGED <<fields, host, ghost, audit, page, stopWhilePending>>

\* lines 231-253: transcribeAudio settles, the handler answers
TranscribeSettles(id, reply, later) ==
  /\ served[id].state = "transcribing"
  /\ LET outcome == transcribeAudio(reply, later)
     IN IF ~outcome.threw
          THEN /\ uploads' = uploads \ {id}
               /\ served' = [served EXCEPT
                               ![id] = Answered(200, TRUE, outcome.value, reply, outcome)]
          ELSE /\ UNCHANGED uploads
               /\ served' = [served EXCEPT
                               ![id] = Answered(500, FALSE, <<>>, reply, outcome)]
  /\ UNCHANGED sender
  /\ UNCHANGED <<fields, host, ghost, audit, page, stopWhilePending>>

\* the fetch of processAudioChunk (lines 204-208) reaches the endpoint
FetchArrives(sub, id) ==
  /\ BagIn(sub, inflight)
  /\ sub.kind = "chunk"
  /\ \A j \in Requests : sender[j] # sub
  /\ PostTranscribe(id, TRUE, sub)

\* the answer of the endpoint reaches processAudioChunk: lines 210-240
AnswerArrives(id) ==
  /\ served[id].state = "answered"
  /\ sender[id] # NoSender
  /\ ChunkResponse(sender[id], ResponseOf(served[id]))

\* ---------------------------------------------------------- specification
\* everything but the call of start()
Handlers ==
  \/ StartUnsupported
  \/ StartDenied
  \/ StartGrantedContinuous
  \/ StartGrantedChunked
  \/ Stop
  \/ \E r \in Sessions, size \in FragSizes : FragmentArrives(r, size)
  \/ \E t \in Sessions : Tick(t)
  \/ \E sub \in Submissions, resp \in Responses : ChunkResponse(sub, resp)
  \/ \E r \in Sessions : RecorderStopped(r)
  \/ \E sub \in Submissions, resp \in Responses : FinalResponse(sub, resp)
  \/ \E results \in RecEvents : RecognitionResult(results)
  \/ \E kind \in ErrorKinds : RecognitionError(kind)
  \/ RecognitionEnd
  \/ \E s \in Sessions : RestartFires(s)

Next == StartRequest \/ Handlers

Spec == Init /\ [][Next]_vars

\* the behaviours of one session: start() is not called again once it has
\* been granted
SessionStart == sessionCount = 0 /\ StartRequest
SessionNext == SessionStart \/ Handlers
SpecSession == Init /\ [][SessionNext]_vars

\* setInterval keeps firing while the interval is armed
SpecSessionLive == SpecSession /\ WF_vars(\E t \in Sessions : Tick(t))

\* the windowing of one chunked session while it records: fragments, window
\* ticks and the responses to their submissions
WindowingNext ==
  \/ SessionStart
  \/ StartGrantedChunked
  \/ \E r \in Sessions, size \in FragSizes : FragmentArrives(r, size)
  \/ \E t \in Sessions : Tick(t)
  \/ \E sub \in Submissions, resp \in Responses : ChunkResponse(sub, resp)
WindowingInit == Init /\ ~hasRecognition
SpecWindowing == WindowingInit /\ [][WindowingNext]_vars

\* one continuous session: results, errors, ends and restarts of recognition
RecognitionNext ==
  \/ SessionStart
  \/ StartGrantedContinuous
  \/ Stop
  \/ \E results \in RecEvents : RecognitionResult(results)
  \/ \E kind \in ErrorKinds : RecognitionError(kind)
  \/ RecognitionEnd
  \/ \E s \in Sessions : RestartFires(s)
RecognitionInit == Init /\ hasRecognition
SpecRecognition == RecognitionInit /\ [][RecognitionNext]_vars

\* one recording made with the page: the page starts the transcriber with
\* the store's setTranscript and stops it with handleStopRecording
PageStart == startCalls = 0 /\ HandleRecordingToggle
PageNext ==
  \/ PageStart
  \/ StartDenied
  \/ StartGrantedContinuous
  \/ StartGrantedChunked
  \/ EffectRerun
  \/ HandleStopRecording
  \/ \E ok \in BOOLEAN : SummaryArrives(ok)
  \/ \E r \in Sessions, size \in FragSizes : FragmentArrives(r, size)
  \/ \E t \in Sessions : Tick(t)
  \/ \E sub \in Submissions, resp \in Responses : ChunkResponse(sub, resp)
  \/ \E r \in Sessions : RecorderStopped(r)
  \/ \E sub \in Submissions, resp \in Responses : FinalResponse(sub, resp)
  \/ \E results \in RecEvents : RecognitionResult(results)
  \/ \E kind \in ErrorKinds : RecognitionError(kind)
  \/ RecognitionEnd
  \/ \E s \in Sessions : RestartFires(s)
\* the page creates the transcriber only if isSupported()
PageInit == Init /\ mediaRecorderSupported
SpecPage == PageInit /\ [][PageNext]_vars

\* the transcription endpoint of the server
ServerNext ==
  \/ \E id \in Requests, hasFile \in BOOLEAN : PostTranscribe(id, hasFile, NoSender)
  \/ \E id \in Requests, reply \in WhisperReplies, later \in BOOLEAN :
       TranscribeSettles(id, reply, later)
SpecServer == Init /\ [][ServerNext]_vars

\* a chunked session whose submissions are served by the endpoint
EndToEndNext ==
  \/ SessionStart
  \/ StartGrantedChunked
  \/ \E r \in Sessions, size \in FragSizes : FragmentArrives(r, size)
  \/ \E t \in Sessions : Tick(t)
  \/ \E sub \in Submissions, id \in Requests : FetchArrives(sub, id)
  \/ \E id \in Requests, reply \in WhisperReplies, later \in BOOLEAN :
       TranscribeSettles(id, reply, later)
  \/ \E id \in Requests : AnswerArrives(id)
SpecEndToEnd == WindowingInit /\ [][EndToEndNext]_vars

TypeOK ==
  /\ isRecording \in BOOLEAN
  /\ retryCount \in 0..maxRetries
  /\ lastProcessedChunk \in 0..MaxFragments
  /\ Len(audioChunks) <= MaxFragments
  /\ BagCardinality(inflight) <= MaxInflight
  /\ Len(accumulatedTranscript) <= MaxLen
  /\ Len(transcribed) = Len(audioChunks)
  /\ summarized \in BOOLEAN
  /\ wired \in BOOLEAN
  /\ summary \in {"null", "parsed", "error"}
  /\ storeRecording \in BOOLEAN
  /\ saved \in 0..MaxSaves
  /\ refStale \in BOOLEAN
  /\ effectPending \in BOOLEAN
  /\ uploads \subseteq Requests
  /\ \A id \in Requests : served[id].state \in {"idle", "transcribing", "answered"}

\* ------------------------------------------------------------------ claims
ChunkSubmissions(s) == {sub \in BagToSet(inflight) : sub.kind = "chunk" /\ sub.origin = s}

\* C1: after stop() has returned for a session, no handler of that session
\* (recognition result or error, chunk response, degradation marker, final
\* flush) invokes the transcript callback.
C1_NoCallbackAfterStop ==
  called # NoCall => called[1].origin \notin stoppedSessions

\* C2: every value passed to the callback has the text accumulated so far
\* as a prefix, so no delivery erases text.
C2_DeliveredKeepsText ==
  called # NoCall => IsPrefix(accumulatedTranscript, called[1].value)

\* C3: within one session every step leaves the earlier accumulated
\* transcript as a prefix of the new one: it only grows by appending.
C3_TranscriptOnlyAppends ==
  [][sessionCount' = sessionCount =>
       IsPrefix(accumulatedTranscript, accumulatedTranscript')]_vars

\* a session in which the transcript grew twice and the whole of it was
\* delivered
C3_GrewTwice ==
  /\ sessionCount = 1
  /\ \E i \in 2..Len(accumulatedTranscript) - 1 : accumulatedTranscript[i] = SP
  /\ called = Call(accumulatedTranscript, 1)

\* C4: on the continuous strategy the accumulated transcript equals the
\* non-empty final fragments of the session joined by single spaces, however
\* they were grouped into result events.
C4_FinalsJoinedBySpaces ==
  (hasRecognition /\ sessionCount >= 1) => accumulatedTranscript = joinedFinals

\* C5: at most one windowed chunk submission of a session is awaiting its
\* response.
C5_OneSubmissionInFlight ==
  \A s \in Sessions :
    /\ Cardinality(ChunkSubmissions(s)) <= 1
    /\ \A sub \in ChunkSubmissions(s) : CopiesIn(sub, inflight) <= 1

\* C6: the response or failure of a chunk submission whose session has been
\* stopped changes neither the accumulated transcript, nor the retry counter,
\* nor the window position.
C6_LateResponseDiscarded ==
  [][\A sub \in BagToSet(inflight), resp \in Responses :
       (sub.origin \in stoppedSessions /\ ChunkResponse(sub, resp))
         => UNCHANGED <<accumulatedTranscript, retryCount, lastProcessedChunk>>]_vars

\* C7: no audio fragment is in more than one windowed chunk whose text was
\* appended to the transcript.
C7_NoFragmentTwice ==
  \A k \in 1..Len(transcribed) : transcribed[k] <= 1

\* C8: the window position has passed only fragments that were put into a
\* windowed chunk (submitted or size-filtered), so no fragment is skipped.
C8_NoFragmentSkipped ==
  \A k \in 1..Len(audioChunks) : k <= lastProcessedChunk => k \in covered

\* every earlier session was ended by stop()
StartedFromIdle == \A s \in 1..(sessionCount - 1) : s \in stoppedSessions

\* C9: in a session started from idle, a failed submission of the session
\* delivers the degradation marker and resets the retry counter exactly when
\* it is the N-th, 2N-th, ... failure in a row of the session, and delivers
\* nothing otherwise.
C9_RetryCeiling ==
  [][\A sub \in BagToSet(inflight), resp \in Responses :
       (/\ StartedFromIdle
        /\ sub.origin = sessionCount
        /\ ChunkResponse(sub, resp)
        /\ ChunkBranch(resp) = "catch")
         => IF (consecFails + 1) % maxRetries = 0
              THEN /\ called' = Call(WithMarker(accumulatedTranscript, UnavailableMarker),
                                     sub.origin)
                   /\ retryCount' = 0
              ELSE called' = NoCall]_vars

\* C10: a response with a success status whose body has success: false or no
\* transcript field is handled as a failure: the retry counter counts it and
\* the window position stays.
MalformedResponse(resp) ==
  resp.kind = "json" /\ (~resp.success \/ ~resp.hasData \/ ~resp.hasText)

C10_MalformedCountsAsFailure ==
  [][\A sub \in BagToSet(inflight), resp \in Responses :
       (ChunkResponse(sub, resp) /\ MalformedResponse(resp))
         => /\ lastProcessedChunk' = lastProcessedChunk
            /\ retryCount' = (retryCount + 1) % maxRetries]_vars

\* audio that the next window would submit: new fragments of at least the
\* minimum size
PendingAudio ==
  /\ Len(audioChunks) > lastProcessedChunk
  /\ SumSizes(SliceFrom(audioChunks, lastProcessedChunk)) >= MinChunkBytes

ChunkInFlight == \E sub \in BagToSet(inflight) : sub.kind = "chunk"

\* the session is active on the chunked strategy, submissions have failed,
\* nothing is in flight and new audio is waiting
FailedAndWaiting ==
  /\ isRecording
  /\ ~useBrowserRecognition
  /\ consecFails > 0
  /\ PendingAudio
  /\ ~ChunkInFlight

\* C11: failures neither end the session nor stop the windowing timer: from
\* every state in which submissions have failed and new audio is waiting, a
\* later window tick makes another submission, unless stop() ends the session.
C11_FailuresKeepWindowing ==
  FailedAndWaiting ~> (ChunkInFlight \/ ~isRecording)

\* the degradation marker has just been delivered and new audio is waiting
C11_AfterMarker ==
  /\ FailedAndWaiting
  /\ called = Call(WithMarker(accumulatedTranscript, UnavailableMarker), sessionCount)

\* C12 as stated: after two stop() calls on a finished chunked session there
\* has been exactly one final-flush submission.
C12_ExactlyOneFlush ==
  (1 \in stoppedSessions /\ stopCalls >= 2 /\ ~useBrowserRecognition
     /\ recorders[1] = "inactive")
    => finalFlushes[1] = 1

\* C12: stop() is idempotent: once stop() has been called on a started
\* session, whatever the number of calls, the stream has been released exactly once and there has been at
\* most one final-flush submission (one when fragments were captured on the
\* chunked strategy, else none), and every call after the first changes no
\* state of the transcriber or its host objects.
C12_StopIdempotent ==
  /\ [](1 \in stoppedSessions
          => /\ releases[1] = 1
             /\ 1 \notin liveStreams
             /\ finalFlushes[1] <= 1
             /\ useBrowserRecognition => finalFlushes[1] = 0
             /\ recorders[1] = "inactive"
                  => finalFlushes[1] = IF Len(audioChunks) > 0 THEN 1 ELSE 0)
  /\ [][(~isRecording /\ Stop) => UNCHANGED <<fields, host, releases, finalFlushes>>]_vars

\* stop() was called twice on a chunked session that had captured audio
C12_StoppedTwice ==
  /\ sessionCount = 1
  /\ stopCalls = 2
  /\ releases[1] = 1
  /\ finalFlushes[1] = 1

\* C13: the final flush made when the recorder stops holds exactly the
\* fragments no window has consumed (and is not made when there are none),
\* and its text is appended to the accumulated transcript and delivered with
\* it instead of replacing it.
C13_FinalFlushIsRemainder ==
  [][/\ \A r \in Sessions :
          (r = sessionCount /\ RecorderStopped(r))
            => inflight' =
                 IF Len(audioChunks) > lastProcessedChunk
                   THEN inflight (+) SetToBag({Submission("final", lastProcessedChunk,
                                                          Len(audioChunks), r)})
                   ELSE inflight
     /\ \A sub \in Submissions, resp \in Responses :
          (sub.origin = sessionCount /\ FinalResponse(sub, resp) /\ FinalDelivers(resp)
             /\ Trim(resp.text) # <<>>)
            => /\ accumulatedTranscript' = AppendText(accumulatedTranscript, Trim(resp.text))
               /\ called' = Call(accumulatedTranscript', sub.origin)
    ]_vars

\* C14: once stop() has released the stream of a chunked session and the
\* session counts as idle, the final flush is over: the recorder has
\* stopped and no final submission of the session awaits its response.
C14_FlushDoneBeforeRelease ==
  \A r \in Sessions :
    (r \in stoppedSessions /\ r \notin liveStreams)
      => /\ recorders[r] \in {"none", "inactive"}
         /\ \A sub \in BagToSet(inflight) : ~(sub.kind = "final" /\ sub.origin = r)

\* C15: as long as every start() was issued from idle, no stream is left
\* with running tracks when the transcriber is not recording, and a start()
\* that throws after the device was granted (recognition.start() refusing
\* because the recognizer has not ended yet) leaves the stream it acquired
\* released.
C15_DeviceAlwaysReleased ==
  /\ []((StartedFromIdle /\ ~isRecording) => liveStreams = {})
  /\ [][(~isRecording /\ StartGrantedContinuous /\ recState # "inactive")
          => (sessionCount + 1) \notin liveStreams']_vars

\* C16: at most one session exists at a time: in every reachable state at
\* most one audio stream has running tracks and at most one windowing timer
\* is armed.
C16_OneSessionAtATime ==
  /\ Cardinality(liveStreams) <= 1
  /\ Cardinality(timers) <= 1

\* nothing is held or running and the callback has not been invoked
Idle ==
  /\ ~isRecording
  /\ stream = 0 /\ liveStreams = {}
  /\ processingInterval = 0 /\ timers = {}
  /\ mediaRecorder = 0 /\ \A r \in Sessions : recorders[r] = "none"
  /\ recState = "inactive" /\ \A t \in Sessions : restartTimers[t] = 0
  /\ inflight = EmptyBag
  /\ onTranscriptUpdate = 0 /\ called = NoCall

\* C17: a denied start() changes nothing: it leaves no request for the
\* device pending (no retry), starts no recorder, timer or recognition,
\* holds no stream and invokes no callback; as long as no start() has been
\* granted the transcriber is idle with nothing held.
C17_DenialLeavesIdle ==
  /\ [](sessionCount = 0 => Idle)
  /\ [][StartDenied
          => /\ startPending' = 0
             /\ called' = NoCall
             /\ UNCHANGED <<fields, liveStreams, recorders, timers, recState,
                            restartTimers, inflight>>]_vars

\* a start() was denied and a later start() has been granted
C17_StartedAfterDenial ==
  /\ startCalls = 2
  /\ startPending = 0
  /\ sessionCount = 1
  /\ isRecording
  /\ stream \in liveStreams

\* C18: with every start() issued from idle, an end event of the recognizer
\* arms exactly one restart timeout if the session is active and none if
\* stop() was called for it; a restart timeout armed by a session restarts
\* recognition when it fires unless stop() was called for that session in
\* the meantime, and then it restarts nothing.
C18_RestartSupervision ==
  [][StartedFromIdle
       => /\ RecognitionEnd
               => restartTimers' =
                    IF sessionCount \in stoppedSessions
                      THEN restartTimers
                      ELSE [restartTimers EXCEPT ![sessionCount] = @ + 1]
          /\ \A s \in Sessions :
               RestartFires(s)
                 => IF s \in stoppedSessions
                      THEN UNCHANGED recState
                      ELSE recState' = "active"
    ]_vars

\* C19: after a recognition error of kind not-allowed the session is no
\* longer active and its stream is released, and the end event that follows
\* arms no restart; an error of any other kind leaves the session active.
C19_DenialEndsSession ==
  /\ [](lastMarker = DeniedMarker => (~isRecording /\ liveStreams = {}))
  /\ [][/\ (lastMarker = DeniedMarker /\ RecognitionEnd) => UNCHANGED restartTimers
         /\ \A kind \in ErrorKinds \ {"not-allowed"} :
              RecognitionError(kind) => UNCHANGED <<isRecording, liveStreams>>
       ]_vars

MarkedKinds == {"audio-capture", "network", "not-allowed"}

\* C20: a no-speech error invokes no callback and changes no field; an
\* audio-capture, network or not-allowed error delivers the accumulated text
\* followed by its marker, and every later update of the session still
\* contains that marker.
C20_MarkerStaysInTranscript ==
  /\ [][/\ RecognitionError("no-speech") => (called' = NoCall /\ UNCHANGED fields)
         /\ \A kind \in MarkedKinds :
              RecognitionError(kind)
                => /\ called' # NoCall
                   /\ called'[1].value = accumulatedTranscript \o <<SP, ErrorMarker(kind)>>
       ]_vars
  /\ []((called # NoCall /\ lastMarker \in {ErrorMarker(k) : k \in MarkedKinds})
          => \E i \in 1..Len(called[1].value) : called[1].value[i] = lastMarker)

\* C21: the strategy of a session is the one the constructor made possible
\* and never changes: a transcriber with recognition never has a recorder,
\* a windowing timer, buffered fragments or a network submission, and one
\* without recognition never has recognition running or a restart pending.
C21_StrategyFixed ==
  /\ sessionCount >= 1 => useBrowserRecognition = hasRecognition
  /\ hasRecognition
       => /\ mediaRecorder = 0 /\ \A r \in Sessions : recorders[r] = "none"
          /\ processingInterval = 0 /\ timers = {}
          /\ audioChunks = <<>> /\ inflight = EmptyBag
  /\ ~hasRecognition
       => /\ recState = "inactive" /\ recSession = 0
          /\ \A t \in Sessions : restartTimers[t] = 0

\* a continuous session that has accumulated text and was restarted once
C21_ContinuousAtWork ==
  /\ hasRecognition
  /\ isRecording
  /\ accumulatedTranscript # <<>>
  /\ lastMarker # ""
  /\ recState = "active"

\* C22: every submission awaiting its response, windowed or final, carries
\* at least the minimum number of bytes.
C22_NoSmallSubmission ==
  \A sub \in BagToSet(inflight) :
    sub.origin = sessionCount
      => SumSizes(SubSeq(audioChunks, sub.from + 1, sub.to)) >= MinChunkBytes

\* C23: a start() issued from idle begins the new session with an empty
\* transcript, a retry counter of zero and the window position before the
\* first fragment.
C23_StartResetsSession ==
  [][(~isRecording /\ (StartGrantedChunked \/ StartGrantedContinuous))
       => /\ accumulatedTranscript' = <<>>
          /\ retryCount' = 0
          /\ lastProcessedChunk' = 0
    ]_vars

\* C25: without MediaRecorder every start() is rejected before the device
\* is requested and the transcriber stays idle: no request for the device
\* pending, no session, no callback registered or invoked, no stream, timer,
\* recorder or recognition.
C25_UnsupportedStaysIdle ==
  ~mediaRecorderSupported => (Idle /\ startPending = 0 /\ sessionCount = 0)

\* start() has been called twice on a transcriber without MediaRecorder
C25_RejectedTwice ==
  /\ ~mediaRecorderSupported
  /\ startCalls = 2

\* C29: a chunk response with success and a text that is non-empty after
\* trimming appends the trimmed text to the transcript, after one space
\* unless the transcript was empty, delivers the whole transcript and sets
\* the retry counter to zero; a success whose text is empty or only
\* whitespace changes neither transcript nor retry counter and invokes no
\* callback.
C29_ChunkSuccessHandling ==
  [][\A t \in ServerTexts :
       (\E sub \in BagToSet(inflight) :
          /\ inflight' = inflight (-) SetToBag({sub})
          /\ ChunkResponse(sub, Response("json", TRUE, TRUE, TRUE, t)))
         => IF Trim(t) # <<>>
              THEN /\ accumulatedTranscript' =
                        IF accumulatedTranscript = <<>>
                          THEN Trim(t)
                          ELSE accumulatedTranscript \o <<SP>> \o Trim(t)
                   /\ called' # NoCall
                   /\ called'[1].value = accumulatedTranscript'
                   /\ retryCount' = 0
              ELSE /\ UNCHANGED <<accumulatedTranscript, retryCount>>
                   /\ called' = NoCall
    ]_vars

\* a second chunk text has been appended and delivered after a failure
C29_SecondTextAppended ==
  /\ ~hasRecognition
  /\ called = Call(accumulatedTranscript, sessionCount)
  /\ Len(accumulatedTranscript) = 3
  /\ retryCount = 0

\* the transcripts of the final (or of the interim) results of an event, in
\* order
RECURSIVE TextOf(_, _)
TextOf(results, final) ==
  IF Len(results) = 0 THEN <<>>
  ELSE TextOf(SubSeq(results, 1, Len(results) - 1), final)
       \o (IF results[Len(results)].isFinal = final
             THEN results[Len(results)].transcript ELSE <<>>)

\* C30 as stated: an event without a final result leaves the transcript
\* unchanged and delivers it followed by a space and the interim text; an
\* event with a final result delivers exactly the accumulated text.
C30_InterimFrameAnyText ==
  [][\A results \in RecEvents :
       RecognitionResult(results)
         => IF \E i \in 1..Len(results) : results[i].isFinal
              THEN /\ called' # NoCall
                   /\ called'[1].value = accumulatedTranscript'
              ELSE /\ UNCHANGED accumulatedTranscript
                   /\ called' # NoCall
                   /\ called'[1].value
                        = accumulatedTranscript \o <<SP>> \o TextOf(results, FALSE)
    ]_vars

\* C30: an event whose final results carry no text leaves the transcript
\* unchanged and, if its interim text is non-empty, delivers the transcript
\* followed by a space and the interim text (and nothing otherwise); an
\* event whose final results carry text delivers exactly the accumulated
\* text, without the interim text of the event.
C30_InterimFrame ==
  [][\A results \in RecEvents :
       RecognitionResult(results)
         => IF TextOf(results, TRUE) # <<>>
              THEN /\ called' # NoCall
                   /\ called'[1].value = accumulatedTranscript'
                   /\ accumulatedTranscript'
                        = accumulatedTranscript
                            \o (IF accumulatedTranscript = <<>> THEN <<>> ELSE <<SP>>)
                            \o TextOf(results, TRUE)
              ELSE /\ UNCHANGED accumulatedTranscript
                   /\ IF TextOf(results, FALSE) # <<>>
                        THEN /\ called' # NoCall
                             /\ called'[1].value
                                  = accumulatedTranscript \o <<SP>> \o TextOf(results, FALSE)
                        ELSE called' = NoCall
    ]_vars

\* an interim text has been delivered behind accumulated final text
C30_InterimDelivered ==
  /\ hasRecognition
  /\ accumulatedTranscript # <<>>
  /\ called # NoCall
  /\ Len(called[1].value) = Len(accumulatedTranscript) + 2
  /\ called[1].value[Len(called[1].value)] \in {"a", "b"}

\* C24: once the user has stopped recording with handleStopRecording and
\* generateSummary has handed the stored transcript to the summarizer, no
\* callback of the session the user stopped changes the stored transcript.
C24_SummarizedTranscriptFinal ==
  [][(summarized /\ called' # NoCall /\ called'[1].origin = sessionCount)
       => transcript' = transcript]_vars

\* C26: once a POST /api/transcribe attempt has completed, successfully or
\* not, the uploaded temporary file has been removed.
C26_TempFileRemoved ==
  \A id \in Requests : served[id].state = "answered" => id \notin uploads

\* C27: transcribeAudio returns the fallback text when the request fails with
\* a network error or the model answers 404, and throws for every other
\* non-success status and for a response without a text field.
C27_FallbackOrThrow ==
  \A id \in Requests :
    (served[id].state = "answered" /\ served[id].status # 400)
      => LET reply == served[id].reply
             outcome == served[id].outcome
         IN /\ (reply.failure \in NetworkFailures
                  \/ (reply.failure = "none" /\ reply.status = 404))
                 => (~outcome.threw /\ IsPrefix(<<ServiceUnavailable>>, outcome.value))
            /\ (reply.failure = "none" /\ reply.status \notin {200, 404})
                 => outcome.threw
            /\ (reply.failure = "none" /\ reply.status = 200 /\ ~reply.hasResponse)
                 => outcome.threw

\* C28: when the model returns an empty text, transcribeAudio returns the
\* empty string without throwing, and the endpoint answers with success and
\* an empty transcript.
C28_EmptyIsSuccess ==
  \A id \in Requests :
    (/\ served[id].state = "answered"
     /\ served[id].reply = WhisperReply("none", 200, TRUE, <<>>))
      => /\ ~served[id].outcome.threw
         /\ served[id].outcome.value = <<>>
         /\ served[id].success
         /\ served[id].transcript = <<>>

\* C31: the fragments of a windowed chunk stay behind the window position
\* when its submission fails below the retry ceiling, so the next window
\* submits them again; the window position passes them when the submission
\* succeeds and when the failure reaches the retry ceiling.
C31_PendingUntilDone ==
  [][\A sub \in BagToSet(inflight), resp \in Responses :
       (/\ StartedFromIdle
        /\ sub.origin = sessionCount
        /\ ChunkResponse(sub, resp))
         => IF ChunkBranch(resp) = "catch" /\ retryCount + 1 < maxRetries
              THEN UNCHANGED lastProcessedChunk
              ELSE lastProcessedChunk' >= sub.to
    ]_vars

\* C32: a restart timeout armed by an end event of a session that has been
\* stopped since never calls recognition.start() when it fires, whether or
\* not a new session has been started in the meantime.
C32_NoRestartAfterStop ==
  [][\A s \in Sessions :
       (RestartFires(s) /\ s \in stoppedSessions)
         => ~(isRecording /\ hasRecognition)]_vars

\* C33: stop() cancels the windowing timer no later than it releases the
\* audio device, and the timer of a session is not armed after stop() has
\* returned for it, so no tick of it starts a chunk submission: every armed
\* timer belongs to a session that has not been stopped and whose audio
\* stream is still running.
C33_TimerCancelledAtStop ==
  \A t \in timers : t \notin stoppedSessions /\ t \in liveStreams

\* a chunked session stopped while audio was waiting for the next window
C33_StoppedWithPendingAudio ==
  /\ ~hasRecognition
  /\ sessionCount \in stoppedSessions
  /\ timers = {}
  /\ Len(audioChunks) > lastProcessedChunk
  /\ SumSizes(SliceFrom(audioChunks, lastProcessedChunk)) >= MinChunkBytes

\* the abort of a pending fetch by its timeout
TimedOut == Response("timeout", FALSE, FALSE, FALSE, <<>>)

\* C34: every submission awaiting its response, windowed or final flush,
\* can be ended by its timeout and is then handled as a failure, so none
\* has to stay pending forever.
C34_SubmissionsBounded ==
  \A sub \in BagToSet(inflight) :
    consecFails < MaxFails
      => ENABLED (ChunkResponse(sub, TimedOut) \/ FinalResponse(sub, TimedOut))

\* C36: when stop() was called while start() was awaiting the device, the
\* grant that arrives afterwards does not make the session active: no
\* recognition, recorder or timer is started and the granted stream is
\* released.
C36_StopCancelsPendingStart ==
  [][(/\ stopWhilePending
      /\ ~isRecording
      /\ StartGrantedContinuous \/ StartGrantedChunked)
       => /\ ~isRecording'
          /\ UNCHANGED <<recState, recorders, timers>>
          /\ (sessionCount + 1) \notin liveStreams']_vars

\* C39: between events the retry counter is within 0..N-1 (N = maxRetries):
\* it is never left at or above the ceiling and never negative.
C39_RetryCounterInRange ==
  retryCount \in 0..(maxRetries - 1)

\* failures have passed the ceiling and gone on counting from zero
C39_CountedPastCeiling ==
  /\ ~hasRecognition
  /\ consecFails > maxRetries
  /\ retryCount = consecFails - maxRetries

\* the transcription back end is unreachable, or its model is missing
BackEndDown(reply) ==
  \/ reply.failure \in NetworkFailures
  \/ reply.failure = "none" /\ reply.status = 404

\* C37: the accumulated transcript never contains the fallback message of
\* the server, and the answer to a chunk whose transcription found the back
\* end unreachable or its model missing is handled as a failed submission:
\* it is counted by the retry policy and leaves the transcript unchanged.
C37_FailureTextKeptOut ==
  /\ [](\A i \in 1..Len(accumulatedTranscript) :
          accumulatedTranscript[i] # ServiceUnavailable)
  /\ [][\A id \in Requests :
          (AnswerArrives(id) /\ BackEndDown(served[id].reply))
            => /\ UNCHANGED accumulatedTranscript
               /\ consecFails' = consecFails + 1]_vars

\* C38: for one stop-and-summarize cycle saveMeeting is called exactly once:
\* never more than once, and once as soon as the summary is there with a
\* transcript to save, also when the transcript changes after the summary.
C38_SavedOnce ==
  /\ saved <= 1
  /\ (summary = "parsed" /\ transcript # <<>>) => saved = 1

\* C35: handleStopRecording stops the instance start() was called on: after
\* the step that instance is not recording and holds no stream, whatever the
\* order of the effect's clean-up and re-run and the grant of the device.
C35_StopReachesStarted ==
  [][HandleStopRecording => (~isRecording' /\ stream' = 0 /\ liveStreams' = {})]_vars

====
